---- MODULE Spec2Model ----
(***************************************************************************)
(* The Trojan transport of sower (transport/trojan/trojan.go): New, Wrap   *)
(* and Unwrap over byte streams, with Go's slice semantics (a slice is a   *)
(* window on a backing array; append writes in place while the capacity    *)
(* lasts), and the HTTP front-end that sniffs through a tee connection.    *)
(***************************************************************************)
EXTENDS Integers, Sequences, FiniteSets, TLC

\* -------------------------------------------------------------- bounds
\* Wrap calls one task makes on the same Trojan value.
MaxCalls == 2
\* How far past the largest representable name length the longest name goes.
OverLen == 1

\* ------------------------------------------------------ bytes and hosts
Min(a, b) == IF a < b THEN a ELSE b

Rep(n, b) == [i \in 1..n |-> b]

\* Overwrite a[off+1 .. off+Len(data)] with data (copy into an array).
CopyAt(a, off, data) ==
    [i \in 1..Len(a) |->
        IF i > off /\ i <= off + Len(data) THEN data[i - off] ELSE a[i]]

\* The largest value of a Go byte: byte(len(tgtHost)) keeps len mod 256.
ByteMax == 255

ToByte(n) == n % (ByteMax + 1)

CRLF == <<13, 10>>

\* A host string, by the syntactic class net.ParseIP puts it in, with the
\* bytes it denotes: the 4 bytes of a dotted quad, the 16 bytes of an IPv6
\* literal, or the bytes of the string itself for anything else.
IPv4Lit == [form |-> "ipv4", b |-> <<93, 184, 216, 34>>]
IPv6Lit == [form |-> "ipv6", b |-> <<32, 1, 13, 184, 0, 0, 0, 0, 0, 0, 0, 0, 0, 0, 0, 1>>]
v4InV6Prefix == <<0, 0, 0, 0, 0, 0, 0, 0, 0, 0, 255, 255>>
\* "::ffff:1.2.3.4"
MappedLit == [form |-> "ipv6", b |-> v4InV6Prefix \o <<1, 2, 3, 4>>]
\* "example.com"
ExampleCom == [form |-> "name", b |-> <<101, 120, 97, 109, 112, 108, 101, 46, 99, 111, 109>>]
NameOfLen(n) == [form |-> "name", b |-> Rep(n, 97)]

Hosts ==
    {IPv4Lit, IPv6Lit, MappedLit, ExampleCom,
     NameOfLen(ByteMax), NameOfLen(ByteMax + OverLen)}

Ports == {443, 8080, 65535}

\* net.ParseIP: the 16-byte form for either kind of literal, nil otherwise.
ParseIP(h) ==
    IF h.form = "ipv4" THEN v4InV6Prefix \o h.b
    ELSE IF h.form = "ipv6" THEN h.b
    ELSE <<>>

\* net.IP.To4: the 4-byte form of an IPv4 or IPv4-mapped address, else nil.
To4(x) ==
    IF Len(x) = 4 THEN x
    ELSE IF Len(x) = 16 /\ SubSeq(x, 1, 12) = v4InV6Prefix THEN SubSeq(x, 13, 16)
    ELSE <<>>

\* ------------------------------------------------------------- Trojan
headLen == 56 + 2 + 1 + 1

\* hex(SHA224(password)) for the passwords of the model.
Sum224Hex(password) ==
    IF password = "hunter2"
    THEN <<56,52,99,97,56,53,48,55,56,100,54,102,97,51,97,57,98,48,49,100,
           97,101,48,50,52,50,57,51,56,97,57,98,55,49,99,57,99,54,57,50,
           48,102,56,100,55,57,48,53,48,53,99,97,100,55,97,55>>
    ELSE <<97,97,100,56,98,52,51,57,51,99,97,100,97,101,102,53,50,99,101,48,
           48,97,55,98,98,99,54,55,49,49,50,57,56,98,55,100,101,50,55,97,
           51,100,99,50,52,56,100,48,49,102,99,51,56,50,55,50>>

Password == "hunter2"

\* The capacity append gives the 60-byte result of growing a full 56-byte
\* slice: twice the old capacity, which is a size class of the allocator.
HeadCap == 112

\* A backing array as append leaves it: the head, then zeroed spare capacity.
GrownHead(passwd, atyp) ==
    passwd \o CRLF \o <<1, atyp>> \o Rep(HeadCap - headLen, 0)

\* The Trojan value: each field is the backing array of the slice of that
\* name.  headPasswd has length = capacity = 56; the other three slices have
\* length headLen and capacity HeadCap, and the slice headers never change.
New(password) ==
    [headPasswd |-> Sum224Hex(password),
     headIPv4   |-> GrownHead(Sum224Hex(password), 1),
     headIPv6   |-> GrownHead(Sum224Hex(password), 4),
     headDomain |-> GrownHead(Sum224Hex(password), 3)]

\* ------------------------------------------------------------- slices
\* A slice of a task: a window [1..len] on a shared array of the Trojan
\* value (base = the field's name) or on an array of the task's own (own).
NoSlice == [base |-> "own", len |-> 0, own |-> <<>>]

SliceOf(base) == [base |-> base, len |-> headLen, own |-> <<>>]

Bytes(tj, s) == IF s.base = "own" THEN s.own ELSE SubSeq(tj[s.base], 1, s.len)

\* append(s, data...): in place when the capacity lasts, else into a new
\* array holding a copy.  Gives the Trojan value's arrays and the new slice.
GoAppend(tj, s, data) ==
    IF s.base = "own"
    THEN [t |-> tj, s |-> [s EXCEPT !.own = s.own \o data, !.len = s.len + Len(data)]]
    ELSE IF s.len + Len(data) <= HeadCap
    THEN [t |-> [tj EXCEPT ![s.base] = CopyAt(tj[s.base], s.len, data)],
          s |-> [s EXCEPT !.len = s.len + Len(data)]]
    ELSE [t |-> tj,
          s |-> [base |-> "own", len |-> s.len + Len(data),
                 own |-> SubSeq(tj[s.base], 1, s.len) \o data]]

\* No Write made yet.
NoWrite == [n |-> 0, err |-> FALSE]

\* What conn.Write may report for a buffer of n bytes: all of it or only
\* the head, each with or without an error.
WriteOutcomes(n) == {[n |-> m, err |-> e] : m \in {n, Min(n, headLen)}, e \in BOOLEAN}

\* ------------------------------------------------------------- state
Tasks == {1, 2}

VARIABLES
    t,          \* the Trojan value shared by every task
    wpc,        \* per task: where it is in Wrap
    calls,      \* per task: Wrap calls begun
    tgtHost, tgtPort, ip, buf,   \* per task: Wrap's parameters and locals
    conn,       \* per task: the bytes its connection has been given
    nwrites,    \* per task: conn.Write calls of the current Wrap
    wout,       \* per task: what conn.Write reported
    wret,       \* per task: what Wrap returned ("none" while it runs)
    stream,     \* everything the peer of the inbound connection sends
    arrived,    \* how many bytes of stream have reached this side
    rin,        \* the bytes that arrived and were not read yet
    reof,       \* the peer closed: nothing arrives after what arrived
    tee,        \* the inbound connection's tee: peek buffer, mode, cursor
    upc,        \* where Unwrap is
    ubuf,       \* the bytes io.ReadFull has collected for binary.Read
    addrLen,    \* Fulfill's addrLen
    uret,       \* what Unwrap returned
    ureads,     \* Read calls Unwrap made on the connection
    n0,         \* the count its first Read returned
    ushort,     \* a read of the address portion came back short
    hpc,        \* per HTTP connection: where its ServeHTTP worker is
    hstream,    \* per HTTP connection: everything the client sends
    harrived,   \* per HTTP connection: how much of it has arrived
    hin,        \* per HTTP connection: arrived and not read yet
    heof,       \* per HTTP connection: the client closed its side
    htee,       \* per HTTP connection: the teeconn around it
    br,         \* per HTTP connection: what the bufio.Reader has pulled
    reqHost,    \* per HTTP connection: req.Host
    dialed,     \* per HTTP connection: the arguments given to ProxyDial
    rc,         \* per HTTP connection: the outbound connection's state
    cli,        \* per HTTP connection: the client connection's state
    relayed,    \* per HTTP connection: the bytes Relay copied to rc
    dpc,        \* where the ProxyDialFn of GenProxyDial is
    dhost, dport,   \* its host and port arguments
    ndials,     \* dialFn calls of the current ProxyDialFn call
    nwraps,     \* proxy.Wrap calls of the current ProxyDialFn call
    dconn,      \* the connection dialFn opened: "none", "open" or "closed"
    dret,       \* what the ProxyDialFn returned: a connection, an error
    alive,      \* the process runs (log.Fatal ends it)
    acceptors,  \* per listener: tasks started that are yet to return from Accept
    fe,         \* per connection: the front-end whose listener accepted it
    serr,       \* per connection: extracting its destination failed
    domain,     \* per connection: ServeHTTPS's domain
    routed,     \* per connection: the arguments given to RouteHandle
    wrote       \* per connection: bytes were written to the client

wvars == <<t, wpc, calls, tgtHost, tgtPort, ip, buf, conn, nwrites, wout, wret>>

uvars == <<stream, arrived, rin, reof, tee, upc, ubuf, addrLen, uret, ureads, n0, ushort>>

hvars == <<hpc, hstream, harrived, hin, heof, htee, br, reqHost, dialed, rc, cli, relayed>>

dvars == <<dpc, dhost, dport, ndials, nwraps, dconn, dret>>

fvars == <<alive, acceptors, fe, serr, domain, routed, wrote>>

xvars == <<dvars, fvars>>

vars == <<wvars, uvars, hvars, xvars>>

InitWrap ==
    /\ t = New(Password)
    /\ wpc = [k \in Tasks |-> "idle"]
    /\ calls = [k \in Tasks |-> 0]
    /\ tgtHost = [k \in Tasks |-> NameOfLen(0)]
    /\ tgtPort = [k \in Tasks |-> 0]
    /\ ip = [k \in Tasks |-> <<>>]
    /\ buf = [k \in Tasks |-> NoSlice]
    /\ conn = [k \in Tasks |-> <<>>]
    /\ nwrites = [k \in Tasks |-> 0]
    /\ wout = [k \in Tasks |-> NoWrite]
    /\ wret = [k \in Tasks |-> "none"]

\* --------------------------------------------------------------- Wrap
\* Wrap is entered on a fresh connection: ip := net.ParseIP(tgtHost).
WrapEnter(k, h, p) ==
    /\ wpc[k] \in {"idle", "ret", "sent"}
    /\ calls[k] < MaxCalls
    /\ calls' = [calls EXCEPT ![k] = @ + 1]
    /\ tgtHost' = [tgtHost EXCEPT ![k] = h]
    /\ tgtPort' = [tgtPort EXCEPT ![k] = p]
    /\ ip' = [ip EXCEPT ![k] = ParseIP(h)]
    /\ buf' = [buf EXCEPT ![k] = NoSlice]
    /\ conn' = [conn EXCEPT ![k] = <<>>]
    /\ nwrites' = [nwrites EXCEPT ![k] = 0]
    /\ wout' = [wout EXCEPT ![k] = NoWrite]
    /\ wret' = [wret EXCEPT ![k] = "none"]
    /\ wpc' = [wpc EXCEPT ![k] = "switch"]
    /\ UNCHANGED t

\* One append statement of task k: buf := append(s, data...).
DoAppend(k, s, data, next) ==
    LET r == GoAppend(t, s, data) IN
    /\ t' = r.t
    /\ buf' = [buf EXCEPT ![k] = r.s]
    /\ wpc' = [wpc EXCEPT ![k] = next]
    /\ UNCHANGED <<calls, tgtHost, tgtPort, ip, conn, nwrites, wout, wret>>

\* case len(ip.To4()) != 0 (the make before the append is dead: its result
\* is overwritten at once).
WrapIPv4(k) ==
    /\ wpc[k] = "switch"
    /\ Len(To4(ip[k])) # 0
    /\ DoAppend(k, SliceOf("headIPv4"), To4(ip[k]), "port")

\* case len(ip) != 0
WrapIPv6(k) ==
    /\ wpc[k] = "switch"
    /\ Len(To4(ip[k])) = 0
    /\ Len(ip[k]) # 0
    /\ DoAppend(k, SliceOf("headIPv6"), ip[k], "port")

\* default: buf = append(t.headDomain, byte(len(tgtHost)))
WrapDomainLen(k) ==
    /\ wpc[k] = "switch"
    /\ Len(To4(ip[k])) = 0
    /\ Len(ip[k]) = 0
    /\ DoAppend(k, SliceOf("headDomain"), <<ToByte(Len(tgtHost[k].b))>>, "name")

\* default: buf = append(buf, []byte(tgtHost)...)
WrapDomainName(k) ==
    /\ wpc[k] = "name"
    /\ DoAppend(k, buf[k], tgtHost[k].b, "port")

PortBytesLittleEndian(p) == <<ToByte(p), ToByte(p \div (ByteMax + 1))>>

\* byte(tgtPort>>8), byte(tgtPort)
PortBytes(p) == <<ToByte(p \div (ByteMax + 1)), ToByte(p)>>

\* buf = append(buf, byte(tgtPort>>8), byte(tgtPort), 0x0D, 0x0A)
WrapPort(k) ==
    /\ wpc[k] = "port"
    /\ DoAppend(k, buf[k], PortBytes(tgtPort[k]) \o CRLF, "write")

WrapFailedErrOnly(n, err, len) == err

\* if n, err := conn.Write(buf); err != nil || n != len(buf)
WrapFailed(n, err, len) == err \/ n # len

\* The one conn.Write(buf), and Wrap's return.
WrapWrite(k) ==
    /\ wpc[k] = "write"
    /\ \E o \in WriteOutcomes(buf[k].len) :
        /\ conn' = [conn EXCEPT ![k] = @ \o SubSeq(Bytes(t, buf[k]), 1, o.n)]
        /\ nwrites' = [nwrites EXCEPT ![k] = @ + 1]
        /\ wout' = [wout EXCEPT ![k] = o]
        /\ wret' = [wret EXCEPT ![k] =
                      IF WrapFailed(o.n, o.err, buf[k].len) THEN "err" ELSE "nil"]
    /\ wpc' = [wpc EXCEPT ![k] = "ret"]
    /\ UNCHANGED <<t, calls, tgtHost, tgtPort, ip, buf>>

\* ---------------------------------------------------- the connection
\* What one Read with room for n bytes may return on a connection whose
\* unread bytes are q: what is there, up to n; with the end of the stream
\* reported at once or on the next call when the peer closed behind them;
\* nothing yet (the call blocks) while q is empty and the peer is open.
ConnReads(q, closed, n) ==
    IF q = <<>>
    THEN IF closed THEN {[data |-> <<>>, err |-> TRUE, rest |-> q]} ELSE {}
    ELSE {[data |-> SubSeq(q, 1, Min(n, Len(q))),
           err  |-> e,
           rest |-> SubSeq(q, Min(n, Len(q)) + 1, Len(q))] :
             e \in IF closed /\ Len(q) <= n THEN BOOLEAN ELSE {FALSE}}

\* teeconn.New: peeking, nothing recorded, not replaying.
NewTee == [buf |-> <<>>, peek |-> TRUE, cur |-> -1]

\* teeconn.Conn.Read: served from the recorded bytes while a replay is under
\* way, else read from the connection and, in peek mode, recorded.
TeeReads(tc, q, closed, n) ==
    IF tc.cur >= 0 /\ tc.cur < Len(tc.buf)
    THEN {[data |-> SubSeq(tc.buf, tc.cur + 1, Min(tc.cur + n, Len(tc.buf))),
           err  |-> FALSE,
           rest |-> q,
           tee  |-> [tc EXCEPT !.cur = Min(tc.cur + n, Len(tc.buf))]]}
    ELSE {[data |-> r.data, err |-> r.err, rest |-> r.rest,
           tee  |-> IF tc.peek THEN [tc EXCEPT !.buf = tc.buf \o r.data] ELSE tc] :
             r \in ConnReads(q, closed, n)}

TeeStop(tc) == [tc EXCEPT !.peek = FALSE]

TeeReread(tc) == [tc EXCEPT !.cur = 0]

InitConn ==
    /\ stream = <<>>
    /\ arrived = 0
    /\ rin = <<>>
    /\ reof = FALSE
    /\ tee = NewTee

\* The next segment arrives: the stream up to position c.
Deliver(c) ==
    /\ ~reof
    /\ arrived < c
    /\ c <= Len(stream)
    /\ arrived' = c
    /\ rin' = rin \o SubSeq(stream, arrived + 1, c)
    /\ UNCHANGED <<stream, reof, tee>>

\* The peer closes (or is cut off) after what has arrived.
PeerClose ==
    /\ ~reof
    /\ reof' = TRUE
    /\ UNCHANGED <<stream, arrived, rin, tee>>

\* ------------------------------------------------------------- Unwrap
Nil == [fam |-> "nil", ADDR |-> <<>>, PORT |-> 0, CRLF |-> <<0, 0>>]

U16(hi, lo) == hi * (ByteMax + 1) + lo

\* binary.Read into ipv4Addr / ipv6Addr: ADDR, PORT (big-endian), CRLF.
DecodeIP(fam, alen, b) ==
    [fam  |-> fam,
     ADDR |-> SubSeq(b, 1, alen),
     PORT |-> U16(b[alen + 1], b[alen + 2]),
     CRLF |-> SubSeq(b, alen + 3, alen + 4)]

\* The size binary.Read asks io.ReadFull for: ADDR + PORT + CRLF.
AddrSize(pc) == IF pc = "ipv4" THEN 4 + 2 + 2 ELSE 16 + 2 + 2

InitUnwrap ==
    /\ upc = "off"
    /\ ubuf = <<>>
    /\ addrLen = 0
    /\ uret = Nil
    /\ ureads = 0
    /\ n0 = 0
    /\ ushort = FALSE

HeadReadFailed(n, err) == err \/ n # headLen

PasswdEqualPrefix(a, b) == a[1] = b[1]

\* bytes.Equal(head.Passwd[:], t.headPasswd)
PasswdEqual(a, b) == a = b

AtypNextNoDefault(atyp) ==
    IF atyp = 1 THEN "ipv4" ELSE IF atyp = 4 THEN "ipv6" ELSE "dlen"

\* switch head.ATYP
AtypNext(atyp) ==
    IF atyp = 1 THEN "ipv4"
    ELSE IF atyp = 4 THEN "ipv6"
    ELSE IF atyp = 3 THEN "dlen"
    ELSE "ret"

\* Unwrap up to its switch: one Read into a zeroed buffer of headLen bytes,
\* the count and the password checked, then the branch on buf[59].
UnwrapHead ==
    /\ upc = "head"
    /\ \E r \in TeeReads(tee, rin, reof, headLen) :
        LET b == CopyAt(Rep(headLen, 0), 0, r.data)
            n == Len(r.data)
            next == IF HeadReadFailed(n, r.err) THEN "ret"
                    ELSE IF ~PasswdEqual(SubSeq(b, 1, 56), t.headPasswd) THEN "ret"
                    ELSE AtypNext(b[headLen])
        IN  /\ rin' = r.rest
            /\ tee' = r.tee
            /\ n0' = n
            /\ ureads' = ureads + 1
            /\ upc' = next
            /\ uret' = Nil
            /\ UNCHANGED <<stream, arrived, reof, ubuf, addrLen, ushort>>

\* case 0x01 / case 0x04: binary.Read, which is io.ReadFull (Read until the
\* struct's size is there or a Read reports an error) and then the decoding.
UnwrapIP ==
    /\ upc \in {"ipv4", "ipv6"}
    /\ \E r \in TeeReads(tee, rin, reof, AddrSize(upc) - Len(ubuf)) :
        LET acc == ubuf \o r.data IN
        /\ rin' = r.rest
        /\ tee' = r.tee
        /\ ureads' = ureads + 1
        /\ IF Len(acc) = AddrSize(upc)
           THEN /\ uret' = DecodeIP(upc, AddrSize(upc) - 4, acc)
                /\ upc' = "ret"
                /\ ubuf' = <<>>
                /\ UNCHANGED ushort
           ELSE IF r.err
           THEN /\ uret' = Nil
                /\ upc' = "ret"
                /\ ubuf' = <<>>
                /\ ushort' = TRUE
           ELSE /\ ubuf' = acc
                /\ UNCHANGED <<uret, upc, ushort>>
        /\ UNCHANGED <<stream, arrived, reof, addrLen, n0>>

\* Fulfill, first Read: the length byte.
UnwrapDomainLen ==
    /\ upc = "dlen"
    /\ \E r \in TeeReads(tee, rin, reof, 1) :
        /\ rin' = r.rest
        /\ tee' = r.tee
        /\ ureads' = ureads + 1
        /\ IF r.err \/ Len(r.data) # 1
           THEN /\ upc' = "ret"
                /\ uret' = Nil
                /\ ushort' = (ushort \/ Len(r.data) # 1)
                /\ UNCHANGED addrLen
           ELSE /\ upc' = "dname"
                /\ addrLen' = r.data[1]
                /\ UNCHANGED <<uret, ushort>>
        /\ UNCHANGED <<stream, arrived, reof, ubuf, n0>>

\* errors.Wrap(err, msg) is nil when err is nil.
ErrorsWrap(err) == err

\* Fulfill, second Read: name, port and CRLF in one Read of addrLen+4 bytes.
\* When the check fails Fulfill returns errors.Wrap(err, ...) and leaves the
\* domain as it was made (ADDR "", PORT 0); Unwrap returns the domain unless
\* that error is non-nil.
UnwrapDomainName ==
    /\ upc = "dname"
    /\ \E r \in TeeReads(tee, rin, reof, addrLen + 4) :
        LET n == Len(r.data)
            zero == [fam |-> "domain", ADDR |-> <<>>, PORT |-> 0, CRLF |-> <<0, 0>>]
        IN
        /\ rin' = r.rest
        /\ tee' = r.tee
        /\ ureads' = ureads + 1
        /\ ushort' = (ushort \/ n # addrLen + 4)
        /\ uret' = IF r.err \/ n # addrLen + 4
                   THEN IF ErrorsWrap(r.err) THEN Nil ELSE zero
                   ELSE [zero EXCEPT !.ADDR = SubSeq(r.data, 1, addrLen),
                                     !.PORT = U16(r.data[addrLen + 1], r.data[addrLen + 2])]
        /\ upc' = "ret"
        /\ UNCHANGED <<stream, arrived, reof, ubuf, addrLen, n0>>

UnwrapStep == UnwrapHead \/ UnwrapIP \/ UnwrapDomainLen \/ UnwrapDomainName

\* ------------------------------------------------- the HTTP front-end
Conns == {1, 2}

\* The size of the buffer bufio.NewReader gives its reader.
defaultBufSize == 4096

\* The most Relay reads from a connection in one Read.
RelayChunk == 16

\* The first position at or after i where s holds b, 0 when there is none.
IndexFrom(s, b, i) ==
    LET at == {k \in i..Len(s) : s[k] = b}
    IN  IF at = {} THEN 0 ELSE CHOOSE k \in at : \A m \in at : k <= m

TrimCR(l) == IF l # <<>> /\ l[Len(l)] = 13 THEN SubSeq(l, 1, Len(l) - 1) ELSE l

\* The complete lines of s from position i on, without their line ends.
LinesFrom(s, i) ==
    LET lines[k \in 1..(Len(s) + 1)] ==
            LET j == IndexFrom(s, 10, k) IN
            IF j = 0 THEN <<>>
            ELSE <<TrimCR(SubSeq(s, k, j - 1))>> \o lines[j + 1]
    IN  lines[i]

\* The bytes after the last complete line: what stays in the reader's
\* buffer when it has to fill it again.
PartialLine(s) ==
    LET ends == {k \in 1..Len(s) : s[k] = 10}
    IN  IF ends = {} THEN s
        ELSE SubSeq(s, (CHOOSE k \in ends : \A m \in ends : m <= k) + 1, Len(s))

\* "HTTP/1.1", "HTTP/1.0"
HTTPVersions == {<<72, 84, 84, 80, 47, 49, 46, 49>>, <<72, 84, 84, 80, 47, 49, 46, 48>>}

\* The request line: method, space, target, space, a known version.
RequestLineOK(l) ==
    LET s1 == IndexFrom(l, 32, 1)
        s2 == IF s1 = 0 THEN 0 ELSE IndexFrom(l, 32, s1 + 1)
    IN  s1 > 1 /\ s2 > 0 /\ SubSeq(l, s2 + 1, Len(l)) \in HTTPVersions

RECURSIVE TrimLeft(_)
TrimLeft(l) == IF l # <<>> /\ l[1] = 32 THEN TrimLeft(Tail(l)) ELSE l

\* The index of the first empty line after the request line, 0 when none.
BlankLine(ls) ==
    IF \E k \in 2..Len(ls) : ls[k] = <<>>
    THEN CHOOSE k \in 2..Len(ls) : ls[k] = <<>> /\ \A m \in 2..(k - 1) : ls[m] # <<>>
    ELSE 0

\* The header lines read so far.
HeaderLines(ls) ==
    SubSeq(ls, 2, IF BlankLine(ls) = 0 THEN Len(ls) ELSE BlankLine(ls) - 1)

\* What ReadRequest makes of the complete lines ls it has.
LinesState(ls) ==
    IF ls = <<>> THEN "more"
    ELSE IF ~RequestLineOK(ls[1]) THEN "bad"
    ELSE IF \E k \in 1..Len(HeaderLines(ls)) : IndexFrom(HeaderLines(ls)[k], 58, 1) = 0
    THEN "bad"
    ELSE IF BlankLine(ls) = 0 THEN "more"
    ELSE "ok"

\* http.ReadRequest on the bytes pulled so far: it needs more, it fails, or
\* it has the request.
ReadRequestState(s) ==
    CHOOSE st \in {LinesState(ls) : ls \in {LinesFrom(s, 1)}} : TRUE

\* "Host"
HostKey == <<72, 111, 115, 116>>

\* The values of the first Host line among the header lines hs: one or none.
HostValues(hs) ==
    LET isHost(l) == SubSeq(l, 1, IndexFrom(l, 58, 1) - 1) = HostKey
    IN  {TrimLeft(SubSeq(hs[k], IndexFrom(hs[k], 58, 1) + 1, Len(hs[k]))) :
            k \in {k \in 1..Len(hs) : isHost(hs[k]) /\ \A m \in 1..(k - 1) : ~isHost(hs[m])}}

\* req.Host: the value of the Host header, "" when there is none.
RequestHost(s) ==
    LET vs == UNION {HostValues(hs) : hs \in {HeaderLines(LinesFrom(s, 1))}}
    IN  IF vs = {} THEN <<>> ELSE CHOOSE v \in vs : TRUE

NoDial == [host |-> <<>>, port |-> 0]

InitHTTP ==
    /\ hpc = [c \in Conns |-> "listen"]
    /\ hstream = [c \in Conns |-> <<>>]
    /\ harrived = [c \in Conns |-> 0]
    /\ hin = [c \in Conns |-> <<>>]
    /\ heof = [c \in Conns |-> FALSE]
    /\ htee = [c \in Conns |-> NewTee]
    /\ br = [c \in Conns |-> <<>>]
    /\ reqHost = [c \in Conns |-> <<>>]
    /\ dialed = [c \in Conns |-> NoDial]
    /\ rc = [c \in Conns |-> "none"]
    /\ cli = [c \in Conns |-> "none"]
    /\ relayed = [c \in Conns |-> <<>>]

\* What a ProxyDialFn call gives back: whether a connection, whether an
\* error.  NoReturn while it runs.
NoReturn == [conn |-> FALSE, err |-> FALSE]

\* return nil, err
DialErr == [conn |-> FALSE, err |-> TRUE]

\* return conn, nil
DialConn == [conn |-> TRUE, err |-> FALSE]

\* GenProxyDial has returned its closure; it has not been called.
InitDial ==
    /\ dpc = "idle"
    /\ dhost = NameOfLen(0)
    /\ dport = 0
    /\ ndials = 0
    /\ nwraps = 0
    /\ dconn = "none"
    /\ dret = NoReturn

\* The listeners main starts, each with its Serve function.
Listeners == {"http", "https", "socks5"}

\* main has started one task per listener: go ServeHTTP(lnHTTP, r), go
\* ServeHTTPS(lnHTTPS, r), go ServeSocks5(ln, r).  No connection yet.
InitFront ==
    /\ alive = TRUE
    /\ acceptors = [l \in Listeners |-> 1]
    /\ fe = [c \in Conns |-> "none"]
    /\ serr = [c \in Conns |-> FALSE]
    /\ domain = [c \in Conns |-> <<>>]
    /\ routed = [c \in Conns |-> NoDial]
    /\ wrote = [c \in Conns |-> FALSE]

\* The state after construction: the Trojan value built, no Wrap begun, no
\* inbound connection, the dialer made, the listeners listening.
Init == InitWrap /\ InitConn /\ InitUnwrap /\ InitHTTP /\ InitDial /\ InitFront

\* ln.Accept returns connection c, whose client will send s; the next
\* acceptor is started and the connection is put in a teeconn.
HTTPAccept(c, s) ==
    /\ hpc[c] = "listen"
    /\ hpc' = [hpc EXCEPT ![c] = "sniff"]
    /\ hstream' = [hstream EXCEPT ![c] = s]
    /\ cli' = [cli EXCEPT ![c] = "open"]
    /\ htee' = [htee EXCEPT ![c] = NewTee]
    /\ UNCHANGED <<harrived, hin, heof, br, reqHost, dialed, rc, relayed>>

\* The next segment of the client's bytes arrives: the stream up to cut.
HDeliver(c, cut) ==
    /\ hpc[c] # "listen"
    /\ ~heof[c]
    /\ harrived[c] < cut
    /\ cut <= Len(hstream[c])
    /\ harrived' = [harrived EXCEPT ![c] = cut]
    /\ hin' = [hin EXCEPT ![c] = @ \o SubSeq(hstream[c], harrived[c] + 1, cut)]
    /\ UNCHANGED <<hpc, hstream, heof, htee, br, reqHost, dialed, rc, cli, relayed>>

\* The client closes its side after what has arrived.
HPeerClose(c) ==
    /\ hpc[c] # "listen"
    /\ ~heof[c]
    /\ heof' = [heof EXCEPT ![c] = TRUE]
    /\ UNCHANGED <<hpc, hstream, harrived, hin, htee, br, reqHost, dialed, rc, cli, relayed>>

\* http.ReadRequest(bufio.NewReader(teeconn)): one fill of the reader's
\* buffer from the teeconn, and what ReadRequest makes of the bytes so far.
\* On an error ServeHTTP returns, and its deferred Close closes the client.
SniffRead(c) ==
    /\ hpc[c] = "sniff"
    /\ \E r \in TeeReads(htee[c], hin[c], heof[c], defaultBufSize - Len(PartialLine(br[c]))) :
        LET acc == br[c] \o r.data
            st  == ReadRequestState(acc)
            bad == st = "bad" \/ (st = "more" /\ r.err)
        IN  /\ hin' = [hin EXCEPT ![c] = r.rest]
            /\ htee' = [htee EXCEPT ![c] = r.tee]
            /\ br' = [br EXCEPT ![c] = acc]
            /\ reqHost' = [reqHost EXCEPT ![c] = IF st = "ok" THEN RequestHost(acc) ELSE @]
            /\ hpc' = [hpc EXCEPT ![c] =
                         IF bad THEN "closed" ELSE IF st = "ok" THEN "dial" ELSE @]
            /\ cli' = [cli EXCEPT ![c] = IF bad THEN "closed" ELSE @]
    /\ UNCHANGED <<hstream, harrived, heof, dialed, rc, relayed>>

StopOnly(tc) == TeeStop(tc)

\* teeconn.Stop().Reread()
StopReread(tc) == TeeReread(TeeStop(tc))

\* r.ProxyDial("tcp", req.Host, 80): on an error ServeHTTP returns (the
\* client is closed); else rc is open, the teeconn stops recording and is
\* set to replay, and Relay starts.
HTTPDial(c, ok) ==
    /\ hpc[c] = "dial"
    /\ dialed' = [dialed EXCEPT ![c] = [host |-> reqHost[c], port |-> 80]]
    /\ IF ok
       THEN /\ rc' = [rc EXCEPT ![c] = "open"]
            /\ htee' = [htee EXCEPT ![c] = StopReread(@)]
            /\ hpc' = [hpc EXCEPT ![c] = "relay"]
            /\ UNCHANGED cli
       ELSE /\ hpc' = [hpc EXCEPT ![c] = "closed"]
            /\ cli' = [cli EXCEPT ![c] = "closed"]
            /\ UNCHANGED <<rc, htee>>
    /\ UNCHANGED <<hstream, harrived, hin, heof, br, reqHost, relayed>>

\* Relay, client to remote: one Read from the teeconn, written to rc.  A
\* Read that reports the end ends the relay; ServeHTTP returns and its
\* deferred calls close rc and the client.
RelayCopy(c) ==
    /\ hpc[c] = "relay"
    /\ \E r \in TeeReads(htee[c], hin[c], heof[c], RelayChunk) :
        /\ hin' = [hin EXCEPT ![c] = r.rest]
        /\ htee' = [htee EXCEPT ![c] = r.tee]
        /\ relayed' = [relayed EXCEPT ![c] = @ \o r.data]
        /\ hpc' = [hpc EXCEPT ![c] = IF r.err THEN "closed" ELSE @]
        /\ rc' = [rc EXCEPT ![c] = IF r.err THEN "closed" ELSE @]
        /\ cli' = [cli EXCEPT ![c] = IF r.err THEN "closed" ELSE @]
    /\ UNCHANGED <<hstream, harrived, heof, br, reqHost, dialed>>

\* Relay, remote to client: the remote end closes or fails, which ends the
\* relay as well.
RelayRemoteEnd(c) ==
    /\ hpc[c] = "relay"
    /\ hpc' = [hpc EXCEPT ![c] = "closed"]
    /\ rc' = [rc EXCEPT ![c] = "closed"]
    /\ cli' = [cli EXCEPT ![c] = "closed"]
    /\ UNCHANGED <<hstream, harrived, hin, heof, htee, br, reqHost, dialed, relayed>>

\* "GET / HTTP/1.1\r\nHost: example.com\r\n\r\n"
GetRequest ==
    <<71, 69, 84, 32, 47, 32, 72, 84, 84, 80, 47, 49, 46, 49, 13, 10,
      72, 111, 115, 116, 58, 32>> \o ExampleCom.b \o <<13, 10, 13, 10>>

\* "BODY-OR-NEXT-REQUEST": more than one RelayChunk behind the headers.
Body == <<66, 79, 68, 89, 45, 79, 82, 45, 78, 69, 88, 84, 45, 82, 69, 81, 85, 69, 83, 84>>

\* "BAD\r\n\r\n"
BadRequest == <<66, 65, 68, 13, 10, 13, 10>>

\* "GET / HTTP/1.0\r\n\r\n"
NoHostRequest == <<71, 69, 84, 32, 47, 32, 72, 84, 84, 80, 47, 49, 46, 48, 13, 10, 13, 10>>

HTTPStreams == {GetRequest, GetRequest \o Body, BadRequest, NoHostRequest}

\* Where a segment may end: in the request line, at its end, in the Host
\* line, at the end of the headers, in the body, at the end.
HCuts(s) == {1, 16, 26, Len(GetRequest), Len(GetRequest) + 2, Len(s)}

NextHTTP ==
    \/ (\E s \in HTTPStreams : HTTPAccept(1, s)) /\ UNCHANGED <<wvars, uvars, xvars>>
    \/ (\E cut \in HCuts(hstream[1]) : HDeliver(1, cut)) /\ UNCHANGED <<wvars, uvars, xvars>>
    \/ HPeerClose(1) /\ UNCHANGED <<wvars, uvars, xvars>>
    \/ SniffRead(1) /\ UNCHANGED <<wvars, uvars, xvars>>
    \/ (\E ok \in BOOLEAN : HTTPDial(1, ok)) /\ UNCHANGED <<wvars, uvars, xvars>>
    \/ RelayCopy(1) /\ UNCHANGED <<wvars, uvars, xvars>>
    \/ RelayRemoteEnd(1) /\ UNCHANGED <<wvars, uvars, xvars>>

SpecHTTP == Init /\ [][NextHTTP]_vars

\* ------------------------------------------- Wrap, then Unwrap (Spec)
\* "PAY": the first bytes the client relays after a successful Wrap.
Payload == <<80, 65, 89>>

\* The bytes task k put on its connection reach the other end whole, with
\* the payload behind them when Wrap succeeded; the caller of a failed Wrap
\* closes the connection.  A fresh inbound connection, handed to Unwrap.
Carry(k) ==
    /\ wpc[k] = "ret"
    /\ upc \in {"off", "ret"}
    /\ wpc' = [wpc EXCEPT ![k] = "sent"]
    /\ stream' = conn[k] \o (IF wret[k] = "nil" THEN Payload ELSE <<>>)
    /\ arrived' = Len(stream')
    /\ rin' = stream'
    /\ reof' = (wret[k] # "nil")
    /\ tee' = NewTee
    /\ upc' = "head"
    /\ ubuf' = <<>>
    /\ addrLen' = 0
    /\ uret' = Nil
    /\ ureads' = 0
    /\ n0' = 0
    /\ ushort' = FALSE
    /\ UNCHANGED <<t, calls, tgtHost, tgtPort, ip, buf, conn, nwrites, wout, wret>>
    /\ UNCHANGED <<hvars, xvars>>

WrapStep(k) ==
    \/ WrapIPv4(k)
    \/ WrapIPv6(k)
    \/ WrapDomainLen(k)
    \/ WrapDomainName(k)
    \/ WrapPort(k)
    \/ WrapWrite(k)

Next ==
    \/ /\ upc \in {"off", "ret"}
       /\ \E h \in Hosts, p \in Ports : WrapEnter(1, h, p)
       /\ UNCHANGED <<uvars, hvars, xvars>>
    \/ WrapStep(1) /\ UNCHANGED <<uvars, hvars, xvars>>
    \/ Carry(1)
    \/ UnwrapStep /\ UNCHANGED <<wvars, hvars, xvars>>

Spec == Init /\ [][Next]_vars

\* ------------------------------------- concurrent Wrap (SpecConc)
\* "10.0.0.7"
OtherIPv4Lit == [form |-> "ipv4", b |-> <<10, 0, 0, 7>>]

ConcHosts == {IPv4Lit, OtherIPv4Lit, IPv6Lit, ExampleCom}

ConcPorts == {443, 8080}

\* Every task calls Wrap on the one Trojan value, each on its own connection.
NextConc ==
    \E k \in Tasks :
        \/ (\E h \in ConcHosts, p \in ConcPorts : WrapEnter(k, h, p)) /\ UNCHANGED <<uvars, hvars, xvars>>
        \/ WrapStep(k) /\ UNCHANGED <<uvars, hvars, xvars>>

SpecConc == Init /\ [][NextConc]_vars

\* ------------------------------- Unwrap of what a peer sends (SpecPeer)
\* The layout of the source's header comment, field by field.
WireFrame(secret, crlf, cmd, atyp, addr, port) ==
    secret \o crlf \o <<cmd, atyp>> \o addr \o PortBytes(port) \o CRLF

Secret == Sum224Hex(Password)

\* The secret with the byte at position i replaced by another hex digit.
Tampered(i) == [Secret EXCEPT ![i] = IF @ = 48 THEN 49 ELSE 48]

DomainAddr(name) == <<ToByte(Len(name))>> \o name

PeerSecrets == {Secret, Tampered(1), Tampered(56), Sum224Hex("letmein")}

PeerAddrs ==
    {[atyp |-> 1, addr |-> IPv4Lit.b],
     [atyp |-> 4, addr |-> IPv6Lit.b],
     [atyp |-> 3, addr |-> DomainAddr(ExampleCom.b)],
     [atyp |-> 3, addr |-> DomainAddr(<<>>)],
     [atyp |-> 0, addr |-> IPv4Lit.b],
     [atyp |-> 2, addr |-> DomainAddr(ExampleCom.b)],
     [atyp |-> 5, addr |-> IPv6Lit.b]}

\* What a peer may send: a frame of the layout, well formed or not in its
\* secret, its head's CRLF, its command or its address type, then payload.
PeerStreams ==
    {WireFrame(s, c, cmd, a.atyp, a.addr, 8080) \o Payload :
        s \in PeerSecrets, c \in {CRLF, <<10, 13>>}, cmd \in {1, 3}, a \in PeerAddrs}

\* Where a segment may end: inside the head, at its end, inside the address.
Cuts(s) ==
    {1, headLen - 1, headLen, headLen + 1, headLen + 4, headLen + 8, Len(s) - 1, Len(s)}

InitPeer ==
    /\ InitWrap
    /\ InitHTTP
    /\ InitDial
    /\ InitFront
    /\ stream \in PeerStreams
    /\ arrived = 0
    /\ rin = <<>>
    /\ reof = FALSE
    /\ tee = NewTee
    /\ upc = "head"
    /\ ubuf = <<>>
    /\ addrLen = 0
    /\ uret = Nil
    /\ ureads = 0
    /\ n0 = 0
    /\ ushort = FALSE

NextPeer ==
    \/ (\E c \in Cuts(stream) : Deliver(c)) /\ UNCHANGED <<upc, ubuf, addrLen, uret, ureads, n0, ushort>> /\ UNCHANGED <<wvars, hvars, xvars>>
    \/ PeerClose /\ UNCHANGED <<upc, ubuf, addrLen, uret, ureads, n0, ushort>> /\ UNCHANGED <<wvars, hvars, xvars>>
    \/ UnwrapStep /\ UNCHANGED <<wvars, hvars, xvars>>

SpecPeer == InitPeer /\ [][NextPeer]_vars

\* ------------------------------------------------------- properties
IsMapped(h) == h.form = "ipv6" /\ SubSeq(h.b, 1, 12) = v4InV6Prefix

\* A valid host: an IP literal, or a domain name of 1..255 bytes.
ValidHost(h) == h.form \in {"ipv4", "ipv6"} \/ Len(h.b) \in 1..ByteMax

FamOf(h) == IF h.form = "name" THEN "domain" ELSE h.form

\* Task 1's Wrap succeeded, its bytes were carried whole, Unwrap returned.
RoundTripped == wpc[1] = "sent" /\ upc = "ret" /\ wret[1] = "nil"

Returned(k) == wpc[k] \in {"ret", "sent"}

FullyWritten(k) == Returned(k) /\ wout[k].n = buf[k].len

\* The bytes Unwrap has taken from the connection so far.
Consumed == arrived - Len(rin)

\* The frame as the layout states it: digest, CRLF, CONNECT, address type,
\* address, big-endian port, CRLF.  A host is IPv4 when To4 of its parse is
\* not nil; a name's length byte is its byte length.
LayoutFrame(h, p) ==
    LET is4 == Len(To4(ParseIP(h))) # 0
        is6 == ~is4 /\ h.form = "ipv6"
    IN  Secret \o <<13, 10, 1>>
        \o (IF is4 THEN <<1>> \o To4(ParseIP(h))
            ELSE IF is6 THEN <<4>> \o h.b
            ELSE <<3, Len(h.b)>> \o h.b)
        \o <<p \div 256, p % 256, 13, 10>>

\* C1 as claimed: for every valid host and port, Unwrap of what Wrap wrote,
\* delivered whole, yields an Address of the same family, host and port.
C1_RoundTripAsClaimed ==
    (RoundTripped /\ ValidHost(tgtHost[1])) =>
        /\ uret.fam = FamOf(tgtHost[1])
        /\ uret.ADDR = tgtHost[1].b
        /\ uret.PORT = tgtPort[1]

\* C1 amended: the same, except that an IPv4-mapped IPv6 literal comes back
\* as the IPv4 address it embeds (family IPv4, its last four bytes).
C1_RoundTrip ==
    (RoundTripped /\ ValidHost(tgtHost[1])) =>
        /\ uret.PORT = tgtPort[1]
        /\ IF IsMapped(tgtHost[1])
           THEN uret.fam = "ipv4" /\ uret.ADDR = SubSeq(tgtHost[1].b, 13, 16)
           ELSE uret.fam = FamOf(tgtHost[1]) /\ uret.ADDR = tgtHost[1].b

C1_Witness ==
    /\ RoundTripped
    /\ tgtHost[1] = MappedLit
    /\ uret.fam = "ipv4"
    /\ uret.PORT = tgtPort[1]

\* C2: tasks calling Wrap concurrently on one Trojan value each write the
\* frame of their own destination to their own connection, and the three
\* precomputed heads are unchanged.
C2_ConcurrentWrapIsolated ==
    /\ \A k \in Tasks :
        FullyWritten(k) => conn[k] = LayoutFrame(tgtHost[k], tgtPort[k])
    /\ SubSeq(t.headIPv4, 1, headLen) = SubSeq(New(Password).headIPv4, 1, headLen)
    /\ SubSeq(t.headIPv6, 1, headLen) = SubSeq(New(Password).headIPv6, 1, headLen)
    /\ SubSeq(t.headDomain, 1, headLen) = SubSeq(New(Password).headDomain, 1, headLen)
    /\ t.headPasswd = Secret

\* C3: Wrap of a name longer than 255 bytes returns an error and puts no
\* frame on the connection whose length byte is the length mod 256.
C3_LongNameRejected ==
    (Returned(1) /\ tgtHost[1].form = "name" /\ Len(tgtHost[1].b) > ByteMax) =>
        /\ wret[1] = "err"
        /\ Len(conn[1]) > headLen => conn[1][headLen + 1] # Len(tgtHost[1].b) % 256

\* C4: after a valid head, when a read of the address portion comes back
\* with fewer bytes than it asked for, Unwrap returns nil.
C4_ShortAddressReadFails ==
    (upc = "ret" /\ ushort) => uret = Nil

\* C5: a head whose secret field differs from the configured secret makes
\* Unwrap return nil after its one read of the head, with no byte of the
\* address read, whatever the address type and the bytes that follow.
C5_WrongSecretRejected ==
    (Len(stream) >= headLen /\ SubSeq(stream, 1, 56) # Secret) =>
        /\ upc \in {"head", "ret"}
        /\ uret = Nil
        /\ ureads <= 1
        /\ Consumed <= headLen
        /\ upc = "ret" => ureads = 1

C5_Witness ==
    /\ upc = "ret"
    /\ n0 = headLen
    /\ SubSeq(stream, 1, 56) = Tampered(56)
    /\ SubSeq(stream, 57, headLen) = <<13, 10, 1, 1>>
    /\ uret = Nil

\* C6: a first read of fewer than 60 bytes, or a head whose address type is
\* none of 1, 3, 4, makes Unwrap return nil after that one read.
C6_MalformedHeadFails ==
    (upc = "ret" /\ (n0 < headLen \/ stream[headLen] \notin {1, 3, 4})) =>
        /\ uret = Nil
        /\ ureads = 1

\* A well-formed head that came in two segments.
C6_Witness ==
    /\ upc = "ret"
    /\ n0 = headLen - 1
    /\ arrived >= headLen
    /\ SubSeq(stream, 1, headLen) = Secret \o <<13, 10, 1, 3>>
    /\ uret = Nil

\* C8: Wrap makes exactly one Write, of the whole frame, and returns an
\* error exactly when that Write reported an error or a count below the
\* frame's length.
C8_OneWriteErrorIffShort ==
    /\ ~Returned(1) => nwrites[1] = 0
    /\ Returned(1) =>
        /\ nwrites[1] = 1
        /\ buf[1].len = Len(LayoutFrame(tgtHost[1], tgtPort[1]))
        /\ conn[1] = SubSeq(Bytes(t, buf[1]), 1, wout[1].n)
        /\ wret[1] = "err" <=> (wout[1].err \/ wout[1].n < buf[1].len)

C8_Witness ==
    /\ Returned(1)
    /\ ~wout[1].err
    /\ wout[1].n < buf[1].len
    /\ wret[1] = "err"

\* C9: for every host and port the frame Wrap writes is the layout's frame,
\* also after earlier Wrap calls on the same Trojan value.
C9_FrameLayout ==
    FullyWritten(1) => conn[1] = LayoutFrame(tgtHost[1], tgtPort[1])

\* C10: an Unwrap that returns an Address has consumed exactly the frame:
\* what is left to read starts with the payload.
C10_ConsumesExactlyFrame ==
    (upc = "ret" /\ uret # Nil) =>
        /\ Consumed = Len(stream) - Len(Payload)
        /\ rin # <<>> => rin[1] = Payload[1]

\* What Relay has read from the client connection and what it will yet
\* read from it: copied, to replay, arrived, still to arrive.
RelayView(c) ==
    relayed[c]
    \o (IF htee[c].cur >= 0 THEN SubSeq(htee[c].buf, htee[c].cur + 1, Len(htee[c].buf)) ELSE <<>>)
    \o hin[c]
    \o SubSeq(hstream[c], harrived[c] + 1, Len(hstream[c]))

Relaying(c) == hpc[c] = "relay" \/ (hpc[c] = "closed" /\ rc[c] = "closed")

\* C7: however much the sniffer's reader pulled while parsing, after
\* Stop().Reread() the relay reads the client's bytes from the first one on,
\* none lost, none twice; the destination is the Host field with port 80.
C7_ReplayFidelity ==
    \A c \in Conns : Relaying(c) =>
        /\ RelayView(c) = hstream[c]
        /\ dialed[c].port = 80
        /\ hstream[c] \in {GetRequest, GetRequest \o Body} => dialed[c].host = ExampleCom.b
        /\ hstream[c] = NoHostRequest => dialed[c].host = <<>>

\* The reader pulled the body along with the headers, and the relay has
\* copied the whole stream.
C7_Witness ==
    /\ hpc[1] = "closed"
    /\ rc[1] = "closed"
    /\ hstream[1] = GetRequest \o Body
    /\ Len(br[1]) > Len(GetRequest)
    /\ relayed[1] = hstream[1]

\* The peer's head carries the configured secret and a recognized address
\* type.
SecretAndTypeGood ==
    /\ Len(stream) >= headLen
    /\ SubSeq(stream, 1, 56) = Secret
    /\ stream[headLen] \in {1, 3, 4}

\* C15: a 60-byte head with the right secret and a recognized address type
\* whose bytes 56-57 are not 0x0D 0x0A makes Unwrap return nil.
C15_BadHeadCRLFRejected ==
    (upc = "ret" /\ n0 = headLen /\ SecretAndTypeGood /\ SubSeq(stream, 57, 58) # CRLF) =>
        uret = Nil

\* C16: after a valid head, an address that comes in fragments makes Unwrap
\* return nil: it holds no part of an IPv4 or IPv6 address while asking the
\* connection for the rest, an IP Address it returns came in the one read
\* after the head's, and a short read of a domain's bytes gives nil.
C16_FailFastAddressRead ==
    /\ upc \in {"ipv4", "ipv6"} => ubuf = <<>>
    /\ (upc = "ret" /\ uret.fam \in {"ipv4", "ipv6"}) => ureads = 2
    /\ (upc = "ret" /\ ushort) => uret = Nil

\* ------------------------------- the dialer (GenProxyDial, SpecDial)
InvalidAddrBoth(host, port) == host.b = <<>> /\ port = 0

\* if host == "" || port == 0
InvalidAddr(host, port) == host.b = <<>> \/ port = 0

\* The ProxyDialFn is called: the check of its arguments.
DialEnter(h, p) ==
    /\ dpc \in {"idle", "ret"}
    /\ calls[1] < MaxCalls
    /\ dhost' = h
    /\ dport' = p
    /\ ndials' = 0
    /\ nwraps' = 0
    /\ dconn' = "none"
    /\ IF InvalidAddr(h, p)
       THEN dpc' = "ret" /\ dret' = DialErr
       ELSE dpc' = "dial" /\ dret' = NoReturn

\* conn, err := dialFn(host, port): a connection to the proxy, or an error.
DialFn(ok) ==
    /\ dpc = "dial"
    /\ ndials' = ndials + 1
    /\ IF ok
       THEN dconn' = "open" /\ dpc' = "wrap" /\ UNCHANGED dret
       ELSE dpc' = "ret" /\ dret' = DialErr /\ UNCHANGED dconn
    /\ UNCHANGED <<dhost, dport, nwraps>>

\* proxy.Wrap(conn, host, port) is entered, on the connection just opened.
DialWrap ==
    /\ dpc = "wrap"
    /\ WrapEnter(1, dhost, dport)
    /\ nwraps' = nwraps + 1
    /\ dpc' = "wrapping"
    /\ UNCHANGED <<dhost, dport, ndials, dconn, dret>>

CloseConnNot(c) == c

\* conn.Close()
CloseConn(c) == "closed"

\* Wrap has returned: on an error the connection is closed and the error
\* returned, else the connection is returned.
DialReturn ==
    /\ dpc = "wrapping"
    /\ wpc[1] = "ret"
    /\ dpc' = "ret"
    /\ IF wret[1] = "err"
       THEN dconn' = CloseConn(dconn) /\ dret' = DialErr
       ELSE dret' = DialConn /\ UNCHANGED dconn
    /\ UNCHANGED <<dhost, dport, ndials, nwraps>>

\* "" among the hosts and 0 among the ports.
DialHosts == {NameOfLen(0), IPv4Lit, IPv6Lit, ExampleCom, NameOfLen(ByteMax + OverLen)}

DialPorts == {0, 443, 8080}

NextDial ==
    \/ (\E h \in DialHosts, p \in DialPorts : DialEnter(h, p)) /\ UNCHANGED <<wvars, uvars, hvars, fvars>>
    \/ (\E ok \in BOOLEAN : DialFn(ok)) /\ UNCHANGED <<wvars, uvars, hvars, fvars>>
    \/ DialWrap /\ UNCHANGED <<uvars, hvars, fvars>>
    \/ dpc = "wrapping" /\ WrapStep(1) /\ UNCHANGED <<uvars, hvars, xvars>>
    \/ DialReturn /\ UNCHANGED <<wvars, uvars, hvars, fvars>>

SpecDial == Init /\ [][NextDial]_vars

\* C11: called with an empty host or a zero port, the ProxyDialFn returns an
\* error without a connection, having called neither dialFn nor Wrap.
C11_InvalidTargetRejected ==
    (dpc # "idle" /\ (Len(dhost.b) = 0 \/ dport = 0)) =>
        /\ dpc = "ret"
        /\ dret = DialErr
        /\ ndials = 0
        /\ nwraps = 0
        /\ dconn = "none"

\* A host with a zero port, after a call that did dial and wrap.
C11_Witness ==
    /\ dpc = "ret"
    /\ dhost = ExampleCom
    /\ dport = 0
    /\ dret = DialErr
    /\ calls[1] = 1

\* C12: the ProxyDialFn returns an open connection that Wrap accepted and no
\* error, or an error and no connection; when it returns an error after
\* dialFn opened a connection (Wrap failed), that connection is closed.
C12_ClosedOnWrapFailure ==
    dpc = "ret" =>
        /\ \/ dret = DialConn /\ dconn = "open" /\ nwraps = 1 /\ wret[1] = "nil"
           \/ dret = DialErr /\ dconn # "open"
        /\ (ndials = 1 /\ nwraps = 1 /\ wret[1] = "err") => dconn = "closed"
        /\ dconn = "none" <=> nwraps = 0

\* Wrap's Write came back short without an error.
C12_Witness ==
    /\ dpc = "ret"
    /\ nwraps = 1
    /\ wret[1] = "err"
    /\ ~wout[1].err
    /\ dconn = "closed"
    /\ dret = DialErr

\* ------------------------------------- the TLS ClientHello (ServeHTTPS)
\* The least room a Read gets from the buffer the TLS connection reads its
\* records into.
MinRead == 512

\* The TLS record type of a handshake message.
recordTypeHandshake == 22

\* The largest payload a TLS record may announce: 16384 + 2048.
maxCiphertext == 18432

BE16(n) == <<n \div (ByteMax + 1), n % (ByteMax + 1)>>

\* s from position i on.
From(s, i) == SubSeq(s, i, Len(s))

\* The server_name extension holding one host name.
SNIExtension(name) ==
    <<0, 0>> \o BE16(Len(name) + 5) \o BE16(Len(name) + 3) \o <<0>> \o BE16(Len(name)) \o name

\* An extension without data: extended_master_secret.
OtherExtension == <<0, 23, 0, 0>>

\* A ClientHello in one record: version, random, no session id, one cipher
\* suite, the null compression, the extensions.
ClientHello(exts) ==
    LET msg == <<3, 3>> \o Rep(32, 7) \o <<0>> \o <<0, 2, 19, 1>> \o <<1, 0>>
               \o BE16(Len(exts)) \o exts
        hs  == <<1, 0>> \o BE16(Len(msg)) \o msg
    IN  <<recordTypeHandshake, 3, 1>> \o BE16(Len(hs)) \o hs

\* The server name among the extensions e, "" when there is none; <<-1>>
\* when the extensions do not parse.
ServerNameIn(e) ==
    LET find[i \in 1..(Len(e) + 1)] ==
            IF i > Len(e) THEN <<>>
            ELSE IF i + 3 > Len(e) THEN <<-1>>
            ELSE LET typ == U16(e[i], e[i + 1])
                     len == U16(e[i + 2], e[i + 3])
                     d   == SubSeq(e, i + 4, i + 3 + len)
                 IN  IF i + 3 + len > Len(e) THEN <<-1>>
                     ELSE IF typ # 0 THEN find[i + 4 + len]
                     ELSE IF len < 5 \/ U16(d[1], d[2]) # len - 2 \/ d[3] # 0
                             \/ U16(d[4], d[5]) # len - 5
                     THEN <<-1>>
                     ELSE From(d, 6)
    IN  find[1]

\* The extensions of a ClientHello message body (after the 4 bytes of the
\* handshake header), <<-1>> when the body does not parse.
HelloExtensions(m) ==
    IF Len(m) < 35 THEN <<-1>>
    ELSE LET a == 35 + m[35] + 1                 \* cipher suites' length
         IN  IF Len(m) < a + 1 THEN <<-1>>
             ELSE LET b == a + 2 + U16(m[a], m[a + 1])   \* compressions' length
                  IN  IF Len(m) < b THEN <<-1>>
                      ELSE LET x == b + 1 + m[b]         \* extensions' length
                           IN  IF Len(m) = x - 1 THEN <<>>
                               ELSE IF Len(m) < x + 1 THEN <<-1>>
                               ELSE IF Len(m) # x + 1 + U16(m[x], m[x + 1]) THEN <<-1>>
                               ELSE From(m, x + 2)

\* The server name of the ClientHello message body m, <<-1>> when the body
\* or its extensions do not parse.
HelloName(m) ==
    CHOOSE v \in {ServerNameIn(e) : e \in {HelloExtensions(x) : x \in {m}}} : TRUE

\* The first record's payload, and the handshake message's body in it.
RecordOf(s) == SubSeq(s, 6, 5 + U16(s[4], s[5]))

BodyOf(rec) == SubSeq(rec, 5, 4 + U16(rec[3], rec[4]))

\* What the handshake makes of its first record rec.
RecordState(rec) ==
    IF Len(rec) < 4 THEN "more"
    ELSE IF rec[1] # 1 THEN "bad"
    ELSE IF rec[2] # 0 \/ Len(rec) < 4 + U16(rec[3], rec[4]) THEN "more"
    ELSE IF HelloName(BodyOf(rec)) = <<-1>> THEN "bad"
    ELSE "ok"

\* What the handshake makes of the bytes read so far: it needs more, the
\* first record is no ClientHello it can parse, or it has the ClientHello.
HelloState(s) ==
    IF Len(s) < 5 THEN "more"
    ELSE IF s[1] # recordTypeHandshake \/ U16(s[4], s[5]) > maxCiphertext THEN "bad"
    ELSE IF Len(s) < 5 + U16(s[4], s[5]) THEN "more"
    ELSE CHOOSE st \in {RecordState(rec) : rec \in {RecordOf(s)}} : TRUE

\* hello.ServerName of a ClientHello that parsed.
ServerName(s) ==
    CHOOSE v \in {HelloName(BodyOf(rec)) : rec \in {RecordOf(s)}} : TRUE

HelloWithSNI == ClientHello(OtherExtension \o SNIExtension(ExampleCom.b))

HelloWithoutSNI == ClientHello(OtherExtension)

\* ------------------------------------ the SOCKS5 target address
\* How many bytes the target address takes, as far as acc tells: the type,
\* then 4 or 16 address bytes or a length byte and a name, then the port.
Socks5Need(acc) ==
    IF acc = <<>> THEN 1
    ELSE IF acc[1] = 1 THEN 1 + 4 + 2
    ELSE IF acc[1] = 4 THEN 1 + 16 + 2
    ELSE IF Len(acc) < 2 THEN 2
    ELSE 2 + acc[2] + 2

Socks5State(acc) ==
    IF acc # <<>> /\ acc[1] \notin {1, 3, 4} THEN "bad"
    ELSE IF Len(acc) < Socks5Need(acc) \/ Len(acc) < 3 THEN "more"
    ELSE "ok"

\* addr.Addr(): host and port of a target address that parsed.
Socks5Target(acc) ==
    LET a == IF acc[1] = 3 THEN 3 ELSE 2 IN
    [host |-> SubSeq(acc, a, Len(acc) - 2),
     port |-> U16(acc[Len(acc) - 1], acc[Len(acc)])]

\* ------------------------------- the three front-ends (SpecFront)
LogErrorExits(a) == FALSE

\* log.Error() / log.Warn(): the event is written, the process goes on.
LogError(a) == a

\* log.Fatal(): the event is written and the process exits.
LogFatal(a) == FALSE

SpawnedNot(n) == n

\* go ServeHTTP(ln, r) / go ServeHTTPS(ln, r) / go ServeSocks5(ln, r): one
\* more task on its way into ln.Accept.
Spawned(n) == n + 1

TeeCloseNot(st) == st

\* defer teeconn.Close() / defer conn.Close()
TeeClose(st) == "closed"

DialFailedNever(ok) == FALSE

\* if err != nil after r.ProxyDial
DialFailed(ok) == ~ok

\* Where the worker of a front-end starts once the next acceptor is off.
FirstStep(l) == IF l = "http" THEN "sniff" ELSE IF l = "https" THEN "hello" ELSE "socks"

\* ln.Accept of listener l returns connection c, whose client will send s.
\* Connections are numbered in the order they are accepted.
AcceptConn(l, c, s) ==
    /\ alive
    /\ acceptors[l] > 0
    /\ hpc[c] = "listen"
    /\ \A b \in Conns : b < c => hpc[b] # "listen"
    /\ acceptors' = [acceptors EXCEPT ![l] = @ - 1]
    /\ hpc' = [hpc EXCEPT ![c] = "accepted"]
    /\ fe' = [fe EXCEPT ![c] = l]
    /\ hstream' = [hstream EXCEPT ![c] = s]
    /\ cli' = [cli EXCEPT ![c] = "open"]
    /\ UNCHANGED <<harrived, hin, heof, htee, br, reqHost, dialed, rc, relayed>>
    /\ UNCHANGED <<alive, serr, domain, routed, wrote>>

\* ln.Accept of listener l returns an error: log.Fatal.
AcceptFails(l) ==
    /\ alive
    /\ acceptors[l] > 0
    /\ acceptors' = [acceptors EXCEPT ![l] = @ - 1]
    /\ alive' = LogFatal(alive)
    /\ UNCHANGED <<hvars, fe, serr, domain, routed, wrote>>

\* The task that accepted c starts the next acceptor, then turns to c (for
\* HTTP and HTTPS: puts it in a teeconn).
SpawnNext(c) ==
    /\ alive
    /\ hpc[c] = "accepted"
    /\ acceptors' = [acceptors EXCEPT ![fe[c]] = Spawned(@)]
    /\ hpc' = [hpc EXCEPT ![c] = FirstStep(fe[c])]
    /\ htee' = [htee EXCEPT ![c] = NewTee]
    /\ UNCHANGED <<hstream, harrived, hin, heof, br, reqHost, dialed, rc, cli, relayed>>
    /\ UNCHANGED <<alive, fe, serr, domain, routed, wrote>>

\* tls.Server(teeconn, ...).Handshake(): one Read of the record layer, and
\* what the handshake makes of the bytes so far.  Once the ClientHello is
\* read GetConfigForClient sets domain; the handshake then ends, there being
\* no certificate.  What Handshake returns is dropped: ServeHTTPS goes on to
\* ProxyDial in every case.
Handshake(c) ==
    /\ alive
    /\ hpc[c] = "hello"
    /\ \E r \in TeeReads(htee[c], hin[c], heof[c], MinRead) :
        LET acc == br[c] \o r.data
            st  == HelloState(acc)
        IN  /\ hin' = [hin EXCEPT ![c] = r.rest]
            /\ htee' = [htee EXCEPT ![c] = r.tee]
            /\ br' = [br EXCEPT ![c] = acc]
            /\ domain' = [domain EXCEPT ![c] = IF st = "ok" THEN ServerName(acc) ELSE @]
            /\ serr' = [serr EXCEPT ![c] = st = "bad" \/ (st = "more" /\ r.err)]
            /\ hpc' = [hpc EXCEPT ![c] = IF st = "more" /\ ~r.err THEN @ ELSE "dial"]
    /\ UNCHANGED <<hstream, harrived, heof, reqHost, dialed, rc, cli, relayed>>
    /\ UNCHANGED <<alive, acceptors, fe, routed, wrote>>

\* r.ProxyDial("tcp", domain, 443); on an error ServeHTTPS logs it and
\* returns, else Stop().Reread() and Relay.
HTTPSDial(c, ok) ==
    /\ alive
    /\ hpc[c] = "dial"
    /\ fe[c] = "https"
    /\ dialed' = [dialed EXCEPT ![c] = [host |-> domain[c], port |-> 443]]
    /\ rc' = [rc EXCEPT ![c] = IF ok THEN "open" ELSE @]
    /\ IF DialFailed(ok)
       THEN /\ hpc' = [hpc EXCEPT ![c] = "closed"]
            /\ cli' = [cli EXCEPT ![c] = TeeClose(@)]
            /\ alive' = LogError(alive)
            /\ UNCHANGED htee
       ELSE /\ htee' = [htee EXCEPT ![c] = StopReread(@)]
            /\ hpc' = [hpc EXCEPT ![c] = "relay"]
            /\ UNCHANGED <<cli, alive>>
    /\ UNCHANGED <<hstream, harrived, hin, heof, br, reqHost, relayed>>
    /\ UNCHANGED <<acceptors, fe, serr, domain, routed, wrote>>

\* Relay, remote to client: bytes of the remote end are written to the
\* client.
RelayBack(c) ==
    /\ alive
    /\ hpc[c] = "relay"
    /\ ~wrote[c]
    /\ wrote' = [wrote EXCEPT ![c] = TRUE]
    /\ UNCHANGED <<hvars, alive, acceptors, fe, serr, domain, routed>>

\* socks5.New().Unwrap(conn): one Read of the connection itself, and what
\* the decoding makes of the bytes so far.  On an error ServeSocks5 logs it
\* and returns; else it calls r.RouteHandle(conn, host, port).
Socks5Unwrap(c) ==
    /\ alive
    /\ hpc[c] = "socks"
    /\ \E r \in ConnReads(hin[c], heof[c], Socks5Need(br[c]) - Len(br[c])) :
        LET acc == br[c] \o r.data
            st  == Socks5State(acc)
            err == st = "bad" \/ (st = "more" /\ r.err)
        IN  /\ hin' = [hin EXCEPT ![c] = r.rest]
            /\ br' = [br EXCEPT ![c] = acc]
            /\ serr' = [serr EXCEPT ![c] = err]
            /\ routed' = [routed EXCEPT ![c] = IF st = "ok" THEN Socks5Target(acc) ELSE @]
            /\ hpc' = [hpc EXCEPT ![c] =
                         IF err THEN "closed" ELSE IF st = "ok" THEN "route" ELSE @]
            /\ cli' = [cli EXCEPT ![c] = IF err THEN TeeClose(@) ELSE @]
            /\ alive' = IF err THEN LogError(alive) ELSE alive
    /\ UNCHANGED <<hstream, harrived, heof, htee, reqHost, dialed, rc, relayed>>
    /\ UNCHANGED <<acceptors, fe, domain, wrote>>

\* r.RouteHandle returns, having written to the client or not; the deferred
\* conn.Close() runs.
RouteReturn(c) ==
    /\ alive
    /\ hpc[c] = "route"
    /\ hpc' = [hpc EXCEPT ![c] = "closed"]
    /\ cli' = [cli EXCEPT ![c] = TeeClose(@)]
    /\ \E w \in BOOLEAN : wrote' = [wrote EXCEPT ![c] = w]
    /\ UNCHANGED <<hstream, harrived, hin, heof, htee, br, reqHost, dialed, rc, relayed>>
    /\ UNCHANGED <<alive, acceptors, fe, serr, domain, routed>>

\* ServeHTTP's sniff and dial on c; each logs the error it returns on.
HTTPStep(c) ==
    /\ alive
    /\ fe[c] = "http"
    /\ \/ SniffRead(c) /\ serr' = [serr EXCEPT ![c] = hpc'[c] = "closed"]
       \/ (\E ok \in BOOLEAN : HTTPDial(c, ok)) /\ UNCHANGED serr
    /\ alive' = IF hpc'[c] = "closed" THEN LogError(alive) ELSE alive
    /\ UNCHANGED <<acceptors, fe, domain, routed, wrote>>

\* relay.Relay(teeconn, rc) of ServeHTTP and ServeHTTPS, client to remote.
RelayStep(c) ==
    /\ alive
    /\ RelayCopy(c) \/ RelayRemoteEnd(c)
    /\ UNCHANGED fvars

\* The client of c: its bytes arrive, it closes.
ClientStep(c, cut) ==
    /\ alive
    /\ hpc[c] # "closed"
    /\ HDeliver(c, cut) \/ HPeerClose(c)
    /\ UNCHANGED fvars

WorkerStep(c) ==
    \/ SpawnNext(c)
    \/ HTTPStep(c)
    \/ Handshake(c)
    \/ \E ok \in BOOLEAN : HTTPSDial(c, ok)
    \/ RelayStep(c)
    \/ RelayBack(c)
    \/ Socks5Unwrap(c)
    \/ RouteReturn(c)

\* "\x03\x0bexample.com\x1f\x90" and the payload behind it.
Socks5Frame == <<3, Len(ExampleCom.b)>> \o ExampleCom.b \o BE16(8080) \o Payload

\* An address type that is none.
Socks5Bad == <<9, 1, 2, 3>>

\* What the clients of each listener send.
FrontStreams(l) ==
    IF l = "http" THEN {GetRequest, BadRequest}
    ELSE IF l = "https" THEN {HelloWithSNI, HelloWithoutSNI, GetRequest}
    ELSE {Socks5Frame, Socks5Bad}

\* Where a segment may end: inside the first bytes, at the end.
FrontCuts(s) == {3, Len(s)}

NextFront ==
    \/ (\E l \in Listeners, c \in Conns : \E s \in FrontStreams(l) : AcceptConn(l, c, s))
         /\ UNCHANGED <<wvars, uvars, dvars>>
    \/ (\E l \in Listeners : AcceptFails(l)) /\ UNCHANGED <<wvars, uvars, dvars>>
    \/ (\E c \in Conns : WorkerStep(c)) /\ UNCHANGED <<wvars, uvars, dvars>>
    \/ (\E c \in Conns : \E cut \in FrontCuts(hstream[c]) : ClientStep(c, cut))
         /\ UNCHANGED <<wvars, uvars, dvars>>

SpecFront == Init /\ [][NextFront]_vars

\* C13: in each front-end, once extracting the destination has failed (the
\* request does not parse, the handshake fails before a ClientHello is read,
\* the SOCKS5 address does not decode), neither ProxyDial nor RouteHandle is
\* called for the connection, nothing is written to the client, and the
\* worker ends with the client closed.
C13_FailurePolicy ==
    \A c \in Conns : serr[c] =>
        /\ dialed[c] = NoDial
        /\ routed[c] = NoDial
        /\ ~wrote[c]
        /\ rc[c] = "none"
        /\ hpc[c] \in {"dial", "closed"}
        /\ hpc[c] = "closed" => cli[c] = "closed"

\* Everything the model holds about connection c and its worker.
ConnState(c) ==
    <<hpc[c], fe[c], cli[c], rc[c], htee[c], hin[c], heof[c], harrived[c], br[c],
      reqHost[c], domain[c], dialed[c], routed[c], relayed[c], wrote[c], serr[c]>>

\* The worker of c ends in this step: its sniff, its dial or its relay
\* failed or ended.
WorkerEnds(c) ==
    /\ hpc[c] \in {"sniff", "hello", "socks", "dial", "relay", "route"}
    /\ hpc'[c] = "closed"

\* C14: the step in which a worker's sniff, dial or relay fails closes that
\* worker's own connections and nothing else: the process goes on, no task
\* leaves Accept, and every other connection is as it was.
C14_ErrorsLocal ==
    [][\A c \in Conns : WorkerEnds(c) =>
          /\ alive'
          /\ acceptors' = acceptors
          /\ cli'[c] = "closed"
          /\ rc'[c] \in {"none", "closed"}
          /\ \A d \in Conns \ {c} : ConnState(d)' = ConnState(d)]_vars

\* Connection 1 failed in its sniff while connection 2 is being relayed.
C14_Witness ==
    /\ alive
    /\ hpc[1] = "closed"
    /\ serr[1]
    /\ dialed[1] = NoDial
    /\ hpc[2] = "relay"
    /\ cli[2] = "open"
    /\ rc[2] = "open"
    /\ \A l \in Listeners : acceptors[l] = 1

\* The steps of a worker, in the order of its code.
Rank(pc) ==
    IF pc = "listen" THEN 0
    ELSE IF pc = "accepted" THEN 1
    ELSE IF pc \in {"sniff", "hello", "socks"} THEN 2
    ELSE IF pc = "dial" THEN 3
    ELSE IF pc \in {"relay", "route"} THEN 4
    ELSE 5

\* What is still to be read from the connection of c itself.
Unread(c) == hin[c] \o SubSeq(hstream[c], harrived[c] + 1, Len(hstream[c]))

\* C17, state by state: nothing is read before the accept; while a worker
\* sniffs or dials the teeconn is in peek mode and holds all that was read,
\* no dial has succeeded and nothing is relayed; the relay runs only with the
\* dial's connection open and Stop().Reread() done; RouteHandle is called
\* only with what Unwrap decoded, on a connection without replay, whose next
\* byte is the one behind the SOCKS5 address.
OrderedNow(c) ==
    /\ Rank(hpc[c]) <= 1 => br[c] = <<>> /\ htee[c] = NewTee /\ dialed[c] = NoDial
    /\ hpc[c] \in {"sniff", "hello", "dial"} =>
        /\ htee[c].peek
        /\ htee[c].cur = -1
        /\ htee[c].buf = br[c]
        /\ rc[c] = "none"
        /\ relayed[c] = <<>>
    /\ hpc[c] \in {"sniff", "hello"} => dialed[c] = NoDial
    /\ hpc[c] = "relay" =>
        /\ fe[c] \in {"http", "https"}
        /\ dialed[c] # NoDial
        /\ rc[c] = "open"
        /\ ~htee[c].peek
        /\ htee[c].cur >= 0
    /\ relayed[c] # <<>> => ~htee[c].peek /\ dialed[c] # NoDial
    /\ fe[c] = "socks5" => htee[c] = NewTee /\ dialed[c] = NoDial
    /\ routed[c] # NoDial =>
        /\ fe[c] = "socks5"
        /\ hpc[c] \in {"route", "closed"}
        /\ ~serr[c]
        /\ Socks5State(br[c]) = "ok"
        /\ routed[c] = Socks5Target(br[c])
        /\ br[c] \o Unread(c) = hstream[c]
    /\ hpc[c] = "route" => routed[c] # NoDial

\* C17, step by step: a worker only moves forward through accept, sniff,
\* dial, relay; the teeconn records a read only in peek mode and only while
\* the worker sniffs; once stopped it is never back in peek mode.
OrderedStep(c) ==
    /\ Rank(hpc'[c]) >= Rank(hpc[c])
    /\ hpc'[c] = "relay" => hpc[c] \in {"dial", "relay"}
    /\ hpc'[c] = "dial" => hpc[c] \in {"sniff", "hello", "dial"}
    /\ hpc'[c] = "route" => hpc[c] \in {"socks", "route"}
    /\ htee'[c].buf # htee[c].buf => htee[c].peek /\ hpc[c] \in {"sniff", "hello"}
    /\ ~htee[c].peek => ~htee'[c].peek

\* C17: per connection the steps come in the order accept, sniff in peek
\* mode, dial, Stop().Reread(), relay; SOCKS5 goes from a successful Unwrap
\* to RouteHandle without replay.
C17_PerConnectionOrder ==
    /\ [](\A c \in Conns : OrderedNow(c))
    /\ [][\A c \in Conns : OrderedStep(c)]_vars

\* An HTTPS connection in its relay and a SOCKS5 connection in RouteHandle.
C17_Witness ==
    /\ fe[1] = "https"
    /\ hpc[1] = "relay"
    /\ dialed[1] = [host |-> ExampleCom.b, port |-> 443]
    /\ relayed[1] = HelloWithSNI
    /\ fe[2] = "socks5"
    /\ hpc[2] = "route"
    /\ routed[2] = [host |-> ExampleCom.b, port |-> 8080]

\* The tasks of listener l between Accept's return and their go statement.
Spawning(l) == {c \in Conns : hpc[c] = "accepted" /\ fe[c] = l}

\* C18: while the process runs, each listener has exactly one task in
\* Accept, except between a task's return from Accept and its go statement,
\* when it has none; so a worker past its go statement, stalled or failed or
\* not, leaves one task accepting behind it.
C18_OneAcceptor ==
    alive => \A l \in Listeners :
        /\ acceptors[l] + Cardinality(Spawning(l)) = 1
        /\ (\E c \in Conns : fe[c] = l /\ Rank(hpc[c]) >= 2 /\ Spawning(l) = {}) =>
              acceptors[l] = 1

\* Connection 1 stalls in its sniff, nothing having arrived; connection 2
\* came in on the same listener after it and is being relayed.
C18_Witness ==
    /\ alive
    /\ fe[1] = "http"
    /\ hpc[1] = "sniff"
    /\ harrived[1] = 0
    /\ fe[2] = "http"
    /\ hpc[2] = "relay"
    /\ acceptors["http"] = 1

\* --------------------------- one connection, scheduled fairly
\* The steps the worker of c takes by itself: its own statements, and
\* Relay's copying of what the client sent.
CodeStep(c) ==
    \/ SpawnNext(c)
    \/ HTTPStep(c)
    \/ Handshake(c)
    \/ \E ok \in BOOLEAN : HTTPSDial(c, ok)
    \/ alive /\ RelayCopy(c) /\ UNCHANGED fvars
    \/ Socks5Unwrap(c)
    \/ RouteReturn(c)

NextFrontOne ==
    \/ (\E l \in Listeners : \E s \in FrontStreams(l) : AcceptConn(l, 1, s))
         /\ UNCHANGED <<wvars, uvars, dvars>>
    \/ (\E l \in Listeners : AcceptFails(l)) /\ UNCHANGED <<wvars, uvars, dvars>>
    \/ WorkerStep(1) /\ UNCHANGED <<wvars, uvars, dvars>>
    \/ (\E cut \in FrontCuts(hstream[1]) : ClientStep(1, cut))
         /\ UNCHANGED <<wvars, uvars, dvars>>

\* A task that can run does run: the worker is not kept from a statement
\* it can execute.  Nothing is assumed of the client or of the remote end.
SpecFrontFair ==
    /\ Init
    /\ [][NextFrontOne]_vars
    /\ WF_vars(CodeStep(1) /\ UNCHANGED <<wvars, uvars, dvars>>)

\* A worker that has ended has its client connection closed and no outbound
\* connection open; a relay runs with both its connections open, as does
\* every step before it with the client's.
TornDown(c) ==
    /\ hpc[c] = "closed" => cli[c] = "closed" /\ rc[c] \in {"none", "closed"}
    /\ (hpc[c] = "closed" /\ htee[c].cur >= 0) => rc[c] = "closed"
    /\ hpc[c] = "relay" => cli[c] = "open" /\ rc[c] = "open"
    /\ Rank(hpc[c]) \in 1..4 => cli[c] = "open"
    /\ rc[c] = "open" => hpc[c] = "relay"

\* C19: a worker's end leaves neither of its connections open, none is
\* closed while the relay runs, and once the client has closed its side the
\* worker does end: by a parse failure, a dial failure, or the relay's return
\* on the end of the client's stream.
C19_Teardown ==
    /\ [](\A c \in Conns : TornDown(c))
    /\ (heof[1] /\ Rank(hpc[1]) >= 1) ~> (hpc[1] = "closed" \/ ~alive)

\* An HTTPS connection relayed to the end of the client's stream.
C19_Witness ==
    /\ fe[1] = "https"
    /\ hpc[1] = "closed"
    /\ heof[1]
    /\ relayed[1] = HelloWithSNI
    /\ cli[1] = "closed"
    /\ rc[1] = "closed"

====
